---- MODULE Spec2Model ----
(***************************************************************************)
(* State-machine model of crates/sui-core/src/consensus_adapter.rs: the    *)
(* ConsensusAdapter (submit, submit_recovered, the delivery task           *)
(* submit_and_wait_inner, close_epoch), the connectivity-aware selector    *)
(* and the connection monitor listener.  The epoch store, the committee    *)
(* shuffle and the consensus client are external collaborators; the parts  *)
(* of them the adapter relies on are modelled from their contract.         *)
(***************************************************************************)
EXTENDS Integers, Sequences, FiniteSets, Bags, TLC

(* ------------------------------ bounds --------------------------------- *)
\* number of distinct user certificates offered to submit
NumCerts == 1
\* number of Err results the consensus client returns in one run
MaxClientFailures == 1
\* size of the largest committee a single call is checked on
MaxCommittee == 3
\* number of connectivity events queued on the listener's receiver
MaxEvents == 3
\* threads inside populate_position_metric at the same time
MaxCallers == 2

(* --------------------------- transactions ------------------------------ *)
\* self.authority: this validator
Self == 1
\* the key of ConsensusTransaction::new_end_of_publish(self.authority)
EndOfPublish == 0
Certs == 1..NumCerts
Keys == Certs \cup {EndOfPublish}

\* ConsensusTransaction::is_end_of_publish
is_end_of_publish(k) == k = EndOfPublish
\* matches!(transaction.kind, ConsensusTransactionKind::UserTransaction(_))
is_user_transaction(k) == k \in Certs
\* certificate.digest(): the seed of the shuffle
digest(k) == k

\* epoch_store.committee(): the validators of the epoch, self among them
committee == <<1, 2>>
Validators == {committee[i] : i \in 1..Len(committee)}
\* the values of peer_id_to_authority_names: every validator but self
Peers == Validators \ {Self}

\* the authorities a single call is checked on, and the committees over them
AuthorityNames == 1..MaxCommittee
Committees ==
    UNION {{c \in [1..n -> AuthorityNames] :
                \A i, j \in 1..n : i # j => c[i] # c[j]} : n \in 1..MaxCommittee}
Members(c) == {c[i] : i \in 1..Len(c)}

(* ------------------------ submission ordering -------------------------- *)
remove_at(s, i) == [j \in 1..(Len(s) - 1) |-> IF j < i THEN s[j] ELSE s[j + 1]]

\* committee.shuffle_by_stake_with_rng(None, None, &mut rng): a permutation
\* of the committee drawn by the seeded generator
RECURSIVE shuffle_by_stake_with_rng(_, _)
shuffle_by_stake_with_rng(s, seed) ==
    IF s = <<>> THEN <<>>
    ELSE LET i == (seed % Len(s)) + 1
         IN  <<s[i]>> \o shuffle_by_stake_with_rng(remove_at(s, i), seed \div Len(s))

order_validators_with_replacement(c, tx_digest) ==
    [i \in 1..Len(c) |-> c[(tx_digest % Len(c)) + 1]]
order_validators_for_submission(c, tx_digest) ==
    shuffle_by_stake_with_rng(c, tx_digest)

find_position_one_based(s, a) ==
    CHOOSE i \in 1..Len(s) : s[i] = a /\ \A j \in 1..(i - 1) : s[j] # a
\* itertools find_position: the 0-based index of the first match
find_position(s, a) ==
    (CHOOSE i \in 1..Len(s) : s[i] = a /\ \A j \in 1..(i - 1) : s[j] # a) - 1

position_submit_certificate(c, ourselves, tx_digest) ==
    find_position(order_validators_for_submission(c, tx_digest), ourselves)

(* --------------------------- connectivity ------------------------------ *)
\* DashMap::try_get on a map m as the reader finds it: an entry whose shard
\* is write-locked at the time of the read shows as "Locked"
try_get(m, authority) ==
    IF authority \notin DOMAIN m THEN "Absent"
    ELSE IF m[authority] = "Locked" THEN "Locked"
    ELSE m[authority]

check_connection_stale(m, authority) ==
    IF try_get(m, authority) = "Absent" THEN "None" ELSE "Connected"
\* ConnectionMonitorStatus::check_connection: Present(c) => Some(c),
\* Absent => None, Locked => Some(Disconnected)
check_connection(m, authority) ==
    LET res == try_get(m, authority)
    IN  IF res = "Absent" THEN "None"
        ELSE IF res = "Locked" THEN "Disconnected"
        ELSE res

\* DashMap::insert: the entry of the key is replaced, or added
insert_status_resetting(m, authority, status) ==
    [a \in DOMAIN m \cup {authority} |-> IF a = authority THEN status ELSE "Connected"]
insert_status(m, authority, status) ==
    [a \in DOMAIN m \cup {authority} |-> IF a = authority THEN status ELSE m[a]]

\* ConnectionMonitorListener::spawn: every authority of the mapping starts
\* as Connected
spawn(peer_id_to_authority_names) ==
    [a \in {peer_id_to_authority_names[p] : p \in DOMAIN peer_id_to_authority_names}
        |-> "Connected"]

\* every map a reader can find over the authorities in S: an authority is
\* absent, present with a status, or locked by a write in progress
StatusMaps(S) ==
    UNION {[D -> {"Connected", "Disconnected", "Locked"}] : D \in SUBSET S}

\* The scan of check_submission_wrt_connectivity from rank i (0-based).
\* Result: terminates (FALSE when the loop never exits), submit (the
\* decision), position (the rank handed to populate_position_metric, -1
\* when none), skipped (increments of sequencing_certificate_skipped_disconnected).
RECURSIVE scan_positions(_, _, _, _, _, _)
scan_positions(m, our_position, positions, exclusions, i, skipped) ==
    IF i \in exclusions
    THEN \* `continue` without advancing i
         [terminates |-> FALSE, submit |-> FALSE, position |-> -1, skipped |-> skipped]
    ELSE IF our_position = i
    THEN [terminates |-> TRUE, submit |-> TRUE, position |-> i, skipped |-> skipped]
    ELSE IF (LET res == check_connection(m, positions[i + 1])
             IN  IF res = "None" THEN "Disconnected" ELSE res) = "Connected"
    THEN [terminates |-> TRUE, submit |-> FALSE, position |-> -1, skipped |-> skipped]
    ELSE IF i + 1 >= Len(positions)
    THEN [terminates |-> TRUE, submit |-> TRUE, position |-> i + 1, skipped |-> skipped + 1]
    ELSE scan_positions(m, our_position, positions, exclusions, i + 1, skipped + 1)

check_submission_always(m, ourselves, positions, exclusions) ==
    [terminates |-> TRUE, submit |-> TRUE,
     position |-> find_position(positions, ourselves), skipped |-> 0]
check_submission_relies_on_others(m, ourselves, positions, exclusions) ==
    [terminates |-> TRUE,
     submit |-> \A a \in DOMAIN m : m[a] # "Connected",
     position |-> -1, skipped |-> 0]
check_submission_first_position_only(m, ourselves, positions, exclusions) ==
    [terminates |-> TRUE, submit |-> find_position(positions, ourselves) = 0,
     position |-> -1, skipped |-> 0]
check_submission_wrt_connectivity(m, ourselves, positions, exclusions) ==
    scan_positions(m, find_position(positions, ourselves), positions, exclusions, 0, 0)

should_submit_ranked(m, c, ourselves, k, exclusions) ==
    check_submission_wrt_connectivity(
        m, ourselves, order_validators_for_submission(c, digest(k)), exclusions)
\* should_submit: control messages are always submitted by their sender
should_submit(m, c, ourselves, k, exclusions) ==
    IF is_user_transaction(k)
    THEN check_submission_wrt_connectivity(
             m, ourselves, order_validators_for_submission(c, digest(k)), exclusions)
    ELSE [terminates |-> TRUE, submit |-> TRUE, position |-> -1, skipped |-> 0]

(* ------------------------------- state --------------------------------- *)
VARIABLES
    reconfig_state,      \* ReconfigState held by the epoch store (persisted)
    pending,             \* keys of pending_consensus_transactions (persisted)
    processed,           \* keys whose consensus_message_processed_notify resolves
    handed,              \* keys the consensus client has accepted from this node
    tasks,               \* bag of the delivery tasks that are spawned and not ended
    close_pc,            \* position of the caller of close_epoch: "idle", or
                         \* "send" between the release of the guard and the submit
    epoch_alive,         \* the epoch-alive signal of within_alive_epoch
    started,             \* submit_recovered has run in this process
    restarted,           \* the process has been restarted
    connection_statuses, \* ConnectionMonitorStatus::connection_statuses
    client_failures,     \* Err results the consensus client has returned
    end_of_publish_submits, \* calls of submit(end-of-publish), by call site
    num_inflight_transactions,
    sequencing_certificate_success,
    sequencing_certificate_timeouts,
    sequencing_certificate_failures,
    call                 \* a single call under check: function, arguments,
                         \* result; NoCall while the adapter runs

vars == <<reconfig_state, pending, processed, handed, tasks, close_pc,
          epoch_alive, started, restarted, connection_statuses, client_failures,
          end_of_publish_submits,
          num_inflight_transactions, sequencing_certificate_success,
          sequencing_certificate_timeouts, sequencing_certificate_failures, call>>

metrics == <<num_inflight_transactions, sequencing_certificate_success,
             sequencing_certificate_timeouts, sequencing_certificate_failures>>

\* a task as spawned: its transaction, its position in submit_and_wait_inner,
\* the retries of the running submit_after_selected, its successful
\* hand-offs, the selector's decision, and whether its timer has fired
NewTask(k) == [tx |-> k, pc |-> "start", retries |-> 0, handoffs |-> 0,
               selected |-> FALSE, timed_out |-> FALSE]

\* the awaits of submit_and_wait_inner: before the first poll, the client
\* call and back-off sleep of either submit_after_selected, and the select
SuspensionPoints == {"start", "submit1", "wait", "submit2"}

Running == BagToSet(tasks)
TasksOf(k) == {r \in Running : r.tx = k}
Replace(ts, r, r2) == (ts (-) SetToBag({r})) (+) SetToBag({r2})
Finish(ts, r) == ts (-) SetToBag({r})
\* number of running tasks for key k that are at position pc
CountAt(ts, k, pc) ==
    BagCardinality([r \in {x \in BagToSet(ts) : x.tx = k /\ x.pc = pc} |-> ts[r]])

(* ----------------------------- epoch store ----------------------------- *)
\* ReconfigState::should_accept_user_certs
should_accept_user_certs(state) == state = "AcceptingCerts"
\* ReconfigState::is_reject_user_certs
is_reject_user_certs(state) == state = "RejectingUserCerts"
\* pending_consensus_certificates_count: the user certificates among pending
pending_consensus_certificates_count(p) == Cardinality(p \cap Certs)
pending_consensus_certificates_empty(p) == p \cap Certs = {}
\* insert_pending_consensus_transactions: a table keyed by transaction key
insert_pending_consensus_transactions(p, k) == p \cup {k}
remove_pending_consensus_transaction(p, k) == p \ {k}

\* get_all_pending_consensus_transactions: the table in key order
RECURSIVE get_all_pending_consensus_transactions(_)
get_all_pending_consensus_transactions(p) ==
    IF p = {} THEN <<>>
    ELSE LET k == CHOOSE x \in p : \A y \in p : x <= y
         IN  <<k>> \o get_all_pending_consensus_transactions(p \ {k})

\* within_alive_epoch: the wrapped future runs while the epoch is alive and
\* is dropped at its suspension point once the epoch has ended
within_alive_epoch(alive, pc) == IF alive THEN pc ELSE "cancelled"

(* ------------------------------- adapter ------------------------------- *)
submit_and_wait_unscoped(alive, pc) == pc
\* submit_and_wait: the delivery task is submit_and_wait_inner inside
\* within_alive_epoch
submit_and_wait(alive, pc) == within_alive_epoch(alive, pc)

\* submit_unchecked: spawn_monitored_task!(submit_and_wait(transaction))
submit_unchecked(ts, k, alive) ==
    IF submit_and_wait(alive, "start") = "cancelled"
    THEN ts
    ELSE ts (+) SetToBag({NewTask(k)})

submit_pending_skipped(p, k) == p
\* the first statement of submit: persist before the task is spawned
submit_pending(p, k) == insert_pending_consensus_transactions(p, k)

submit_unguarded(p, ts, k, alive, insert_ok) ==
    [result |-> "Ok", pending |-> p, tasks |-> submit_unchecked(ts, k, alive)]
\* submit: insert_pending_consensus_transactions(..)? returns the error of
\* the insert; otherwise Ok(submit_unchecked(..))
submit(p, ts, k, alive, insert_ok) ==
    IF ~insert_ok
    THEN [result |-> "Err", pending |-> p, tasks |-> ts]
    ELSE [result |-> "Ok", pending |-> submit_pending(p, k),
          tasks |-> submit_unchecked(ts, k, alive)]

\* the list submit_recovered resubmits: the persisted transactions, and one
\* more end-of-publish under the condition of lines 316-332
recovered_transactions(p, state) ==
    LET recovered == get_all_pending_consensus_transactions(p)
    IN  IF is_reject_user_certs(state) /\ pending_consensus_certificates_empty(p)
           /\ \E i \in 1..Len(recovered) : is_end_of_publish(recovered[i])
        THEN Append(recovered, EndOfPublish)
        ELSE recovered

submit_first_unchecked(ts, list, alive) ==
    IF list = <<>> THEN ts ELSE submit_unchecked(ts, Head(list), alive)
\* for transaction in recovered { self.submit_unchecked(transaction, ..) }
RECURSIVE submit_all_unchecked(_, _, _)
submit_all_unchecked(ts, list, alive) ==
    IF list = <<>> THEN ts
    ELSE submit_all_unchecked(submit_unchecked(ts, Head(list), alive), Tail(list), alive)

\* InflightDropGuard::acquire: fetch_add(1)
InflightDropGuard_acquire(n) == n + 1
InflightDropGuard_drop_twice(n) == n - 2
\* Drop for InflightDropGuard: fetch_sub(1); the counter is unsigned, a
\* value below zero here is a wrap-around there
InflightDropGuard_drop(n) == n - 1
\* InflightDropGuard::acquire, then the drop of the guard at the end of
\* populate_position_metric
populate_position_metric(n) == InflightDropGuard_drop(InflightDropGuard_acquire(n))

on_client_error_gives_up(task) ==
    [task EXCEPT !.pc = IF @ = "submit1" THEN "wait" ELSE "remove"]
\* submit_after_selected, the body of `while let Err(e)`: retries += 1 and
\* the loop calls the client again after the sleep
on_client_error(task) == [task EXCEPT !.retries = @ + 1]

on_client_ok_stays_in_loop(task) == [task EXCEPT !.handoffs = @ + 1]
\* submit_after_selected, the exit of `while let Err(e)`: the transaction is
\* handed over and the caller goes on, to the select or to the removal
on_client_ok(task) ==
    [task EXCEPT !.handoffs = @ + 1, !.retries = 0,
                 !.pc = IF @ = "submit1" THEN "wait" ELSE "remove"]

on_timeout_unless_selected(task) ==
    [task EXCEPT !.pc = IF task.selected THEN "remove" ELSE "submit2",
                 !.timed_out = TRUE, !.retries = 0]
on_timeout_no_fallback(task) == [task EXCEPT !.pc = "remove", !.timed_out = TRUE]
\* Either::Right of the select: the fallback submit_after_selected
on_timeout(task) == [task EXCEPT !.pc = "submit2", !.timed_out = TRUE, !.retries = 0]

send_end_of_publish_never(k, state, pending_count) == FALSE
\* send_end_of_publish of submit_and_wait_inner, read under the read guard
send_end_of_publish(k, state, pending_count) ==
    IF is_user_transaction(k)
    THEN IF is_reject_user_certs(state) THEN pending_count = 0 ELSE FALSE
    ELSE FALSE

close_epoch_never_returns_early(state) == FALSE
\* close_epoch: "Allow caller to call this method multiple times"
close_epoch_returns_early(state) == ~should_accept_user_certs(state)

close_epoch_always_sends(pending_count) == TRUE
close_epoch_never_sends(pending_count) == FALSE
\* close_epoch: let send_end_of_publish = pending_count == 0
close_epoch_send_end_of_publish(pending_count) == pending_count = 0

(* -------------------------------- Init --------------------------------- *)
ConsensusAdapter_new ==
    /\ reconfig_state = "AcceptingCerts"
    /\ pending = {}
    /\ processed = {}
    /\ handed = {}
    /\ tasks = EmptyBag
    /\ close_pc = "idle"
    /\ epoch_alive = TRUE
    /\ started = FALSE
    /\ restarted = FALSE
    /\ connection_statuses = [a \in Peers |-> "Connected"]
    /\ client_failures = 0
    /\ end_of_publish_submits = [site \in {"close_epoch", "submit_and_wait_inner"} |-> 0]
    /\ num_inflight_transactions = 0
    /\ sequencing_certificate_success = 0
    /\ sequencing_certificate_timeouts = 0
    /\ sequencing_certificate_failures = 0

NoCall == [fn |-> "none", pc |-> "returned"]

Init ==
    /\ ConsensusAdapter_new
    /\ call = NoCall

(* ------------------------------- actions ------------------------------- *)
\* submit_recovered, called once at startup
SubmitRecovered ==
    /\ ~started
    /\ tasks' = submit_all_unchecked(
                    tasks, recovered_transactions(pending, reconfig_state), epoch_alive)
    /\ started' = TRUE
    /\ UNCHANGED <<call, reconfig_state, pending, processed, handed, close_pc, epoch_alive,
                   restarted, connection_statuses, client_failures,
                   end_of_publish_submits, metrics>>

\* submit(certificate, Some(lock)): the caller holds the read guard and the
\* store accepts a user certificate only in AcceptingCerts; the insert into
\* the pending table succeeds
Submit(c) ==
    /\ started
    /\ should_accept_user_certs(reconfig_state)
    /\ c \notin pending \cup processed \cup handed
    /\ TasksOf(c) = {}
    /\ LET res == submit(pending, tasks, c, epoch_alive, TRUE)
       IN  pending' = res.pending /\ tasks' = res.tasks
    /\ UNCHANGED <<call, reconfig_state, processed, handed, close_pc, epoch_alive, started,
                   restarted, connection_statuses, client_failures,
                   end_of_publish_submits, metrics>>

\* submit_and_wait_inner up to its first await: the selector decision. A
\* read that finds an entry locked decides as on a Disconnected entry, a
\* status the listener can have written before the read.
TaskStart(r) ==
    /\ r.pc = "start"
    /\ LET d == should_submit(connection_statuses, committee, Self, r.tx, {})
       IN  /\ d.terminates
           /\ tasks' = Replace(tasks, r,
                  [r EXCEPT !.selected = d.submit,
                            !.pc = IF d.submit THEN "submit1" ELSE "wait"])
           /\ num_inflight_transactions' =
                  IF d.position >= 0
                  THEN populate_position_metric(num_inflight_transactions)
                  ELSE num_inflight_transactions
    /\ UNCHANGED <<call, reconfig_state, pending, processed, handed, close_pc, epoch_alive,
                   started, restarted, connection_statuses, client_failures,
                   end_of_publish_submits,
                   sequencing_certificate_success, sequencing_certificate_timeouts,
                   sequencing_certificate_failures>>

\* submit_after_selected: the consensus client returns Ok
TaskSubmitOk(r) ==
    /\ r.pc \in {"submit1", "submit2"}
    /\ handed' = handed \cup {r.tx}
    /\ tasks' = Replace(tasks, r, on_client_ok(r))
    /\ UNCHANGED <<call, reconfig_state, pending, processed, close_pc, epoch_alive, started,
                   restarted, connection_statuses, client_failures,
                   end_of_publish_submits, metrics>>

\* submit_after_selected: the consensus client returns Err; count, sleep, retry
TaskSubmitErr(r) ==
    /\ r.pc \in {"submit1", "submit2"}
    /\ client_failures < MaxClientFailures
    /\ client_failures' = client_failures + 1
    /\ sequencing_certificate_failures' = sequencing_certificate_failures + 1
    /\ tasks' = Replace(tasks, r, on_client_error(r))
    /\ UNCHANGED <<call, reconfig_state, pending, processed, handed, close_pc, epoch_alive,
                   started, restarted, connection_statuses, end_of_publish_submits,
                   num_inflight_transactions,
                   sequencing_certificate_success, sequencing_certificate_timeouts>>

\* the select resolves Either::Left: the processed notification arrived
TaskAck(r) ==
    /\ r.pc = "wait"
    /\ r.tx \in processed
    /\ tasks' = Replace(tasks, r, [r EXCEPT !.pc = "remove"])
    /\ UNCHANGED <<call, reconfig_state, pending, processed, handed, close_pc, epoch_alive,
                   started, restarted, connection_statuses, client_failures,
                   end_of_publish_submits, metrics>>

\* the select resolves Either::Right: the 7s timer fired first
TaskTimeout(r) ==
    /\ r.pc = "wait"
    /\ r.tx \notin processed
    /\ tasks' = Replace(tasks, r, on_timeout(r))
    /\ sequencing_certificate_timeouts' = sequencing_certificate_timeouts + 1
    /\ UNCHANGED <<call, reconfig_state, pending, processed, handed, close_pc, epoch_alive,
                   started, restarted, connection_statuses, client_failures,
                   end_of_publish_submits,
                   num_inflight_transactions, sequencing_certificate_success,
                   sequencing_certificate_failures>>

\* remove_pending_consensus_transaction(&transaction.key())
TaskRemove(r) ==
    /\ r.pc = "remove"
    /\ pending' = remove_pending_consensus_transaction(pending, r.tx)
    /\ tasks' = Replace(tasks, r, [r EXCEPT !.pc = "check"])
    /\ UNCHANGED <<call, reconfig_state, processed, handed, close_pc, epoch_alive, started,
                   restarted, connection_statuses, client_failures,
                   end_of_publish_submits, metrics>>

\* the end-of-publish check under the read guard, the submit that follows
\* it, the success metric, and the end of the task
TaskCheck(r) ==
    /\ r.pc = "check"
    /\ IF send_end_of_publish(r.tx, reconfig_state,
                              pending_consensus_certificates_count(pending))
       THEN /\ LET res == submit(pending, Finish(tasks, r), EndOfPublish,
                                 epoch_alive, TRUE)
               IN  pending' = res.pending /\ tasks' = res.tasks
            /\ end_of_publish_submits' =
                   [end_of_publish_submits EXCEPT !["submit_and_wait_inner"] = @ + 1]
       ELSE /\ tasks' = Finish(tasks, r)
            /\ UNCHANGED <<pending, end_of_publish_submits>>
    /\ sequencing_certificate_success' = sequencing_certificate_success + 1
    /\ UNCHANGED <<call, reconfig_state, processed, handed, close_pc, epoch_alive, started,
                   restarted, connection_statuses, client_failures,
                   num_inflight_transactions, sequencing_certificate_timeouts,
                   sequencing_certificate_failures>>

\* close_epoch under the write guard; the early return leaves every
\* variable as it is
CloseEpochLocked ==
    /\ started
    /\ close_pc = "idle"
    /\ IF close_epoch_returns_early(reconfig_state)
       THEN UNCHANGED <<reconfig_state, close_pc>>
       ELSE /\ reconfig_state' = "RejectingUserCerts"
            /\ close_pc' = IF close_epoch_send_end_of_publish(
                                  pending_consensus_certificates_count(pending))
                           THEN "send" ELSE "idle"
    /\ UNCHANGED <<call, pending, processed, handed, tasks, epoch_alive, started, restarted,
                   connection_statuses, client_failures, end_of_publish_submits,
                   metrics>>

\* close_epoch after the guard is released: submit(end-of-publish, None)
CloseEpochSend ==
    /\ close_pc = "send"
    /\ LET res == submit(pending, tasks, EndOfPublish, epoch_alive, TRUE)
       IN  pending' = res.pending /\ tasks' = res.tasks
    /\ end_of_publish_submits' = [end_of_publish_submits EXCEPT !["close_epoch"] = @ + 1]
    /\ close_pc' = "idle"
    /\ UNCHANGED <<call, reconfig_state, processed, handed, epoch_alive, started, restarted,
                   connection_statuses, client_failures, metrics>>

\* the consensus pipeline reports a transaction processed: a certificate any
\* validator may have sequenced, an end-of-publish only this node hands over
ConsensusProcessed(k) ==
    /\ k \notin processed
    /\ \/ is_user_transaction(k) /\ k \in pending
       \/ k \in handed
    /\ processed' = processed \cup {k}
    /\ UNCHANGED <<call, reconfig_state, pending, handed, tasks, close_pc, epoch_alive,
                   started, restarted, connection_statuses, client_failures,
                   end_of_publish_submits, metrics>>

\* the store moves to RejectingAllCerts on a quorum of end-of-publish
CloseAllCerts ==
    /\ reconfig_state = "RejectingUserCerts"
    /\ reconfig_state' = "RejectingAllCerts"
    /\ UNCHANGED <<call, pending, processed, handed, tasks, close_pc, epoch_alive, started,
                   restarted, connection_statuses, client_failures,
                   end_of_publish_submits, metrics>>

\* ConnectionMonitorListener::run: one received (peer, status) event
ConnectionEvent(a, status) ==
    /\ connection_statuses[a] # status
    /\ connection_statuses' = insert_status(connection_statuses, a, status)
    /\ UNCHANGED <<call, reconfig_state, pending, processed, handed, tasks, close_pc,
                   epoch_alive, started, restarted, client_failures,
                   end_of_publish_submits, metrics>>

\* the epoch ends: every task waiting at a suspension point is dropped
EpochTerminated ==
    /\ epoch_alive
    /\ epoch_alive' = FALSE
    /\ tasks' = [r \in {x \in Running :
                          x.pc \in SuspensionPoints
                              => submit_and_wait(FALSE, x.pc) # "cancelled"}
                    |-> tasks[r]]
    /\ UNCHANGED <<call, reconfig_state, pending, processed, handed, close_pc, started,
                   restarted, connection_statuses, client_failures,
                   end_of_publish_submits, metrics>>

\* the process stops and starts again within the epoch: the store keeps the
\* pending table, the reconfiguration state and the processed keys
Restart ==
    /\ epoch_alive
    /\ started
    /\ ~restarted
    /\ tasks' = EmptyBag
    /\ close_pc' = "idle"
    /\ started' = FALSE
    /\ restarted' = TRUE
    /\ connection_statuses' = [a \in Peers |-> "Connected"]
    /\ end_of_publish_submits' = [site \in DOMAIN end_of_publish_submits |-> 0]
    /\ num_inflight_transactions' = 0
    /\ sequencing_certificate_success' = 0
    /\ sequencing_certificate_timeouts' = 0
    /\ sequencing_certificate_failures' = 0
    /\ UNCHANGED <<call, reconfig_state, pending, processed, handed, epoch_alive,
                   client_failures>>

TaskStep(r) ==
    \/ TaskStart(r)
    \/ TaskSubmitOk(r)
    \/ TaskSubmitErr(r)
    \/ TaskAck(r)
    \/ TaskTimeout(r)
    \/ TaskRemove(r)
    \/ TaskCheck(r)

Next ==
    \/ SubmitRecovered
    \/ \E c \in Certs : Submit(c)
    \/ \E r \in Running : TaskStart(r)
    \/ \E r \in Running : TaskSubmitOk(r)
    \/ \E r \in Running : TaskSubmitErr(r)
    \/ \E r \in Running : TaskAck(r)
    \/ \E r \in Running : TaskTimeout(r)
    \/ \E r \in Running : TaskRemove(r)
    \/ \E r \in Running : TaskCheck(r)
    \/ CloseEpochLocked
    \/ CloseEpochSend
    \/ \E k \in Keys : ConsensusProcessed(k)
    \/ CloseAllCerts
    \/ \E a \in Peers, status \in {"Connected", "Disconnected"} : ConnectionEvent(a, status)
    \/ EpochTerminated

Spec == Init /\ [][Next]_vars

\* the same system with one restart of the process
NextRestart ==
    \/ Next
    \/ Restart

RestartSpec == Init /\ [][NextRestart]_vars

\* an epoch that does not end, with the scheduling the runtime gives: a
\* spawned task is polled, its timers fire, a client call returns, and
\* close_epoch, a synchronous function, runs on to its submit
NextLive ==
    \/ SubmitRecovered
    \/ \E c \in Certs : Submit(c)
    \/ \E r \in Running : TaskStep(r)
    \/ CloseEpochLocked
    \/ CloseEpochSend
    \/ \E k \in Keys : ConsensusProcessed(k)
    \/ CloseAllCerts
    \/ \E a \in Peers, status \in {"Connected", "Disconnected"} : ConnectionEvent(a, status)

LiveSpec ==
    /\ Init
    /\ [][NextLive]_vars
    /\ WF_vars(\E r \in Running : TaskStep(r))
    /\ WF_vars(CloseEpochSend)

(* ---------------------------- single calls ----------------------------- *)
adapter_vars == <<reconfig_state, pending, processed, handed, tasks, close_pc,
                  epoch_alive, started, restarted, connection_statuses,
                  client_failures, end_of_publish_submits, metrics>>

NewCall(fn, args) == [fn |-> fn, args |-> args, out |-> "none", pc |-> "called"]

ShouldSubmitArgs ==
    UNION {UNION {{[committee |-> c, ourselves |-> o, transaction |-> k, m |-> m] :
                       k \in Keys, m \in StatusMaps(Members(c) \ {o})} :
                  o \in Members(c)} : c \in Committees}
\* check_submission_wrt_connectivity on its own: a priority list, self in
\* it, a status for every other validator, and any set of excluded ranks
CheckSubmissionArgs ==
    UNION {UNION {{[positions |-> c, ourselves |-> o, m |-> m, exclusions |-> x] :
                       m \in [Members(c) \ {o} -> {"Connected", "Disconnected"}],
                       x \in SUBSET (0..(Len(c) - 1))} :
                  o \in Members(c)} : c \in Committees}
CheckConnectionArgs ==
    {[m |-> m, authority |-> a] : m \in StatusMaps(AuthorityNames), a \in AuthorityNames}
OrderArgs == {[committee |-> c, tx_digest |-> digest(k)] : c \in Committees, k \in Certs}
PositionArgs ==
    UNION {{[committee |-> c, ourselves |-> o, tx_digest |-> digest(k)] :
                o \in Members(c), k \in Certs} : c \in Committees}
SubmitArgs ==
    {[transaction |-> k, insert_ok |-> ok] : k \in Keys, ok \in BOOLEAN}

\* the listener's mapping: one peer id for every authority but self
peer_id(a) == 0 - a
peer_id_to_authority_names ==
    [p \in {peer_id(a) : a \in AuthorityNames \ {Self}} |-> 0 - p]
Events ==
    {<<p, status>> : p \in DOMAIN peer_id_to_authority_names,
                     status \in {"Connected", "Disconnected"}}
ListenerArgs ==
    {[peer_id_to_authority_names |-> peer_id_to_authority_names, receiver |-> q] :
         q \in UNION {[1..n -> Events] : n \in 0..MaxEvents}}

\* calls that run on a store in any reconfiguration state with any pending
\* table: close_epoch, and the tail of submit_and_wait_inner from the
\* removal on
ReconfigStates == {"AcceptingCerts", "RejectingUserCerts", "RejectingAllCerts"}
GuardedCalls ==
    {NewCall("close_epoch", <<>>)}
        \cup {NewCall("submit_and_wait_inner", [transaction |-> k]) : k \in Keys}

GuardedCallInit ==
    /\ reconfig_state \in ReconfigStates
    /\ pending \in SUBSET Keys
    /\ call \in GuardedCalls
    /\ processed = {}
    /\ handed = {}
    /\ tasks = EmptyBag
    /\ close_pc = "idle"
    /\ epoch_alive = TRUE
    /\ started = TRUE
    /\ restarted = FALSE
    /\ connection_statuses = [a \in Peers |-> "Connected"]
    /\ client_failures = 0
    /\ end_of_publish_submits = [site \in {"close_epoch", "submit_and_wait_inner"} |-> 0]
    /\ num_inflight_transactions = 0
    /\ sequencing_certificate_success = 0
    /\ sequencing_certificate_timeouts = 0
    /\ sequencing_certificate_failures = 0

FunctionCallInit ==
    /\ ConsensusAdapter_new
    /\ call \in {NewCall("should_submit", a) : a \in ShouldSubmitArgs}
            \cup {NewCall("check_submission_wrt_connectivity", a) :
                       a \in CheckSubmissionArgs}
            \cup {NewCall("check_connection", a) : a \in CheckConnectionArgs}
            \cup {NewCall("order_validators_for_submission", a) : a \in OrderArgs}
            \cup {NewCall("position_submit_certificate", a) : a \in PositionArgs}
            \cup {NewCall("submit", a) : a \in SubmitArgs}
            \cup {NewCall("ConnectionMonitorListener", a) : a \in ListenerArgs}

\* populate_position_metric entered by several tasks at once, each on its
\* own worker thread
ConcurrentCalls ==
    {NewCall("populate_position_metric", [callers |-> n]) : n \in 1..MaxCallers}
ConcurrentCallInit ==
    /\ ConsensusAdapter_new
    /\ call \in ConcurrentCalls

CallInit == FunctionCallInit \/ GuardedCallInit \/ ConcurrentCallInit

CallShouldSubmit ==
    /\ call.fn = "should_submit" /\ call.pc = "called"
    /\ call' = [call EXCEPT
           !.out = should_submit(call.args.m, call.args.committee, call.args.ourselves,
                                 call.args.transaction, {}),
           !.pc = "returned"]
    /\ UNCHANGED adapter_vars

\* a call whose loop never exits stays in the loop
CallCheckSubmission ==
    /\ call.fn = "check_submission_wrt_connectivity" /\ call.pc = "called"
    /\ LET res == check_submission_wrt_connectivity(
                      call.args.m, call.args.ourselves, call.args.positions,
                      call.args.exclusions)
       IN  call' = [call EXCEPT !.out = res,
                                !.pc = IF res.terminates THEN "returned" ELSE "looping"]
    /\ UNCHANGED adapter_vars

CallCheckConnection ==
    /\ call.fn = "check_connection" /\ call.pc = "called"
    /\ call' = [call EXCEPT !.out = check_connection(call.args.m, call.args.authority),
                            !.pc = "returned"]
    /\ UNCHANGED adapter_vars

CallOrderValidators ==
    /\ call.fn = "order_validators_for_submission" /\ call.pc = "called"
    /\ call' = [call EXCEPT
           !.out = order_validators_for_submission(call.args.committee, call.args.tx_digest),
           !.pc = "returned"]
    /\ UNCHANGED adapter_vars

CallPositionSubmitCertificate ==
    /\ call.fn = "position_submit_certificate" /\ call.pc = "called"
    /\ call' = [call EXCEPT
           !.out = position_submit_certificate(call.args.committee, call.args.ourselves,
                                               call.args.tx_digest),
           !.pc = "returned"]
    /\ UNCHANGED adapter_vars

\* one call of submit on the fresh adapter; the insert succeeds or fails
CallSubmit ==
    /\ call.fn = "submit" /\ call.pc = "called"
    /\ LET res == submit(pending, tasks, call.args.transaction, epoch_alive,
                         call.args.insert_ok)
       IN  /\ pending' = res.pending
           /\ tasks' = res.tasks
           /\ call' = [call EXCEPT !.out = res.result, !.pc = "returned"]
    /\ UNCHANGED <<reconfig_state, processed, handed, close_pc, epoch_alive, started,
                   restarted, connection_statuses, client_failures,
                   end_of_publish_submits, metrics>>

\* ConnectionMonitorListener::spawn
ListenerSpawn ==
    /\ call.fn = "ConnectionMonitorListener" /\ call.pc = "called"
    /\ call' = [call EXCEPT
           !.out = [connection_statuses |-> spawn(call.args.peer_id_to_authority_names),
                    receiver |-> call.args.receiver,
                    received |-> <<>>],
           !.pc = "running"]
    /\ UNCHANGED adapter_vars

\* ConnectionMonitorListener::run: one turn of the loop; recv returns the
\* next event, or None when the channel is closed and empty
ListenerRun ==
    /\ call.fn = "ConnectionMonitorListener" /\ call.pc = "running"
    /\ IF call.out.receiver = <<>>
       THEN call' = [call EXCEPT !.pc = "returned"]
       ELSE LET e == Head(call.out.receiver)
                authority_name == call.args.peer_id_to_authority_names[e[1]]
            IN  call' = [call EXCEPT
                    !.out = [connection_statuses |->
                                 insert_status(call.out.connection_statuses,
                                               authority_name, e[2]),
                             receiver |-> Tail(call.out.receiver),
                             received |-> Append(call.out.received, e)]]
    /\ UNCHANGED adapter_vars

\* epoch_store.close_user_certs(reconfig_guard): the guard is moved into the
\* call and gone when it returns
close_user_certs(guard) == "none"

drop_guard_leaked(guard) == guard
\* the end of the block that declares reconfig_guard, or a return inside it
drop_guard(guard) == "none"

\* close_epoch: get_reconfig_state_write_lock_guard
CallCloseEpochAcquire ==
    /\ call.fn = "close_epoch" /\ call.pc = "called"
    /\ call' = [call EXCEPT !.out = [guard |-> "write", send_end_of_publish |-> FALSE],
                            !.pc = "locked"]
    /\ UNCHANGED adapter_vars

\* close_epoch: the block under the write guard
CallCloseEpochGuarded ==
    /\ call.fn = "close_epoch" /\ call.pc = "locked"
    /\ IF close_epoch_returns_early(reconfig_state)
       THEN /\ call' = [call EXCEPT !.out.guard = drop_guard(@), !.pc = "returned"]
            /\ UNCHANGED reconfig_state
       ELSE /\ reconfig_state' = "RejectingUserCerts"
            /\ call' = [call EXCEPT
                   !.out = [guard |-> close_user_certs(call.out.guard),
                            send_end_of_publish |->
                                close_epoch_send_end_of_publish(
                                    pending_consensus_certificates_count(pending))],
                   !.pc = "unlocked"]
    /\ UNCHANGED <<pending, processed, handed, tasks, close_pc, epoch_alive, started,
                   restarted, connection_statuses, client_failures,
                   end_of_publish_submits, metrics>>

\* close_epoch: if send_end_of_publish { self.submit(..) }
CallCloseEpochSubmit ==
    /\ call.fn = "close_epoch" /\ call.pc = "unlocked"
    /\ IF call.out.send_end_of_publish
       THEN /\ LET res == submit(pending, tasks, EndOfPublish, epoch_alive, TRUE)
               IN  pending' = res.pending /\ tasks' = res.tasks
            /\ end_of_publish_submits' =
                   [end_of_publish_submits EXCEPT !["close_epoch"] = @ + 1]
       ELSE UNCHANGED <<pending, tasks, end_of_publish_submits>>
    /\ call' = [call EXCEPT !.pc = "returned"]
    /\ UNCHANGED <<reconfig_state, processed, handed, close_pc, epoch_alive, started,
                   restarted, connection_statuses, client_failures, metrics>>

\* submit_and_wait_inner: the removal, and for a user certificate
\* get_reconfig_state_read_lock_guard
CallPostAckAcquire ==
    /\ call.fn = "submit_and_wait_inner" /\ call.pc = "called"
    /\ pending' = remove_pending_consensus_transaction(pending, call.args.transaction)
    /\ call' = [call EXCEPT
           !.out = [guard |-> IF is_user_transaction(call.args.transaction)
                              THEN "read" ELSE "none",
                    send_end_of_publish |-> FALSE],
           !.pc = IF is_user_transaction(call.args.transaction)
                  THEN "locked" ELSE "unlocked"]
    /\ UNCHANGED <<reconfig_state, processed, handed, tasks, close_pc, epoch_alive,
                   started, restarted, connection_statuses, client_failures,
                   end_of_publish_submits, metrics>>

\* submit_and_wait_inner: the block under the read guard
CallPostAckGuarded ==
    /\ call.fn = "submit_and_wait_inner" /\ call.pc = "locked"
    /\ call' = [call EXCEPT
           !.out = [guard |-> drop_guard(call.out.guard),
                    send_end_of_publish |->
                        send_end_of_publish(call.args.transaction, reconfig_state,
                            pending_consensus_certificates_count(pending))],
           !.pc = "unlocked"]
    /\ UNCHANGED adapter_vars

\* submit_and_wait_inner: if send_end_of_publish { self.submit(..) }, then
\* the success metric
CallPostAckSubmit ==
    /\ call.fn = "submit_and_wait_inner" /\ call.pc = "unlocked"
    /\ IF call.out.send_end_of_publish
       THEN /\ LET res == submit(pending, tasks, EndOfPublish, epoch_alive, TRUE)
               IN  pending' = res.pending /\ tasks' = res.tasks
            /\ end_of_publish_submits' =
                   [end_of_publish_submits EXCEPT !["submit_and_wait_inner"] = @ + 1]
       ELSE UNCHANGED <<pending, tasks, end_of_publish_submits>>
    /\ sequencing_certificate_success' = sequencing_certificate_success + 1
    /\ call' = [call EXCEPT !.pc = "returned"]
    /\ UNCHANGED <<reconfig_state, processed, handed, close_pc, epoch_alive, started,
                   restarted, connection_statuses, client_failures,
                   num_inflight_transactions, sequencing_certificate_timeouts,
                   sequencing_certificate_failures>>

\* the guard of caller i: "none" before acquire, "held", "dropped"
guard_of(i) == IF call.pc = "called" THEN "none" ELSE call.out[i]

\* populate_position_metric of caller i: let mut guard = acquire(self)
CallAcquire(i) ==
    /\ call.fn = "populate_position_metric" /\ call.pc \in {"called", "running"}
    /\ i <= call.args.callers
    /\ guard_of(i) = "none"
    /\ num_inflight_transactions' = InflightDropGuard_acquire(num_inflight_transactions)
    /\ call' = [call EXCEPT
           !.out = [j \in 1..call.args.callers |-> IF j = i THEN "held" ELSE guard_of(j)],
           !.pc = "running"]
    /\ UNCHANGED <<reconfig_state, pending, processed, handed, tasks, close_pc,
                   epoch_alive, started, restarted, connection_statuses, client_failures,
                   end_of_publish_submits, sequencing_certificate_success,
                   sequencing_certificate_timeouts, sequencing_certificate_failures>>

\* populate_position_metric of caller i returns: the guard is dropped
CallDrop(i) ==
    /\ call.fn = "populate_position_metric" /\ call.pc = "running"
    /\ i <= call.args.callers
    /\ call.out[i] = "held"
    /\ num_inflight_transactions' = InflightDropGuard_drop(num_inflight_transactions)
    /\ call' = [call EXCEPT
           !.out[i] = "dropped",
           !.pc = IF \A j \in (1..call.args.callers) \ {i} : call.out[j] = "dropped"
                  THEN "returned" ELSE "running"]
    /\ UNCHANGED <<reconfig_state, pending, processed, handed, tasks, close_pc,
                   epoch_alive, started, restarted, connection_statuses, client_failures,
                   end_of_publish_submits, sequencing_certificate_success,
                   sequencing_certificate_timeouts, sequencing_certificate_failures>>

CallNext ==
    \/ CallShouldSubmit
    \/ CallCheckSubmission
    \/ CallCheckConnection
    \/ CallOrderValidators
    \/ CallPositionSubmitCertificate
    \/ CallSubmit
    \/ ListenerSpawn
    \/ ListenerRun
    \/ CallCloseEpochAcquire
    \/ CallCloseEpochGuarded
    \/ CallCloseEpochSubmit
    \/ CallPostAckAcquire
    \/ CallPostAckGuarded
    \/ CallPostAckSubmit
    \/ \E i \in 1..MaxCallers : CallAcquire(i)
    \/ \E i \in 1..MaxCallers : CallDrop(i)

CallSpec == CallInit /\ [][CallNext]_vars

(* ------------------------------- claims -------------------------------- *)
EndOfPublishSubmitted ==
    end_of_publish_submits["close_epoch"] + end_of_publish_submits["submit_and_wait_inner"]

\* a step of submit_recovered
RecoveryStep == ~started /\ started'
\* end-of-publish tasks spawned by the step
EndOfPublishSpawned ==
    CountAt(tasks', EndOfPublish, "start") - CountAt(tasks, EndOfPublish, "start")

\* C1: a key leaves the pending set only when its processed notification
\* has resolved.
C1_RemovedOnlyWhenProcessed ==
    [][\A k \in Keys : (k \in pending /\ k \notin pending') => k \in processed]_vars

\* C2: recovery in RejectingUserCerts with no pending certificate and an
\* end-of-publish already persisted resubmits exactly that one end-of-publish.
C2_RecoveryNoDuplicate ==
    [][(/\ RecoveryStep
        /\ is_reject_user_certs(reconfig_state)
        /\ pending_consensus_certificates_empty(pending)
        /\ EndOfPublish \in pending) => EndOfPublishSpawned = 1]_vars

\* C3: recovery synthesizes exactly one end-of-publish when the state is
\* RejectingUserCerts, no certificate is pending and none is persisted, and
\* none in every other case.
C3_RecoverySynthesizesInCrashWindow ==
    [][RecoveryStep =>
          EndOfPublishSpawned =
              (IF EndOfPublish \in pending THEN 1 ELSE 0)
            + (IF /\ is_reject_user_certs(reconfig_state)
                  /\ pending_consensus_certificates_empty(pending)
                  /\ EndOfPublish \notin pending
               THEN 1 ELSE 0)]_vars

C5_PersistedBeforeDelivery ==
    [][/\ \A k \in Keys :
              (started /\ CountAt(tasks', k, "start") > CountAt(tasks, k, "start"))
                  => k \in pending'
       /\ \A r \in BagToSet(tasks') :
              (is_user_transaction(r.tx) /\ r.pc \in SuspensionPoints \cup {"remove"})
                  => r.tx \in pending']_vars

\* a spawned task of a user certificate that has not run yet
C5_Witness ==
    \E r \in Running : is_user_transaction(r.tx) /\ r.pc = "start" /\ r.tx \in pending

\* C6: every transaction persisted by submit is eventually processed or
\* handed to the consensus client by this node.
C6_DeliveryLiveness ==
    \A k \in Keys : (k \in pending) ~> (k \in processed \/ k \in handed)

\* a certificate the selector left to another validator, handed over by the
\* fallback while still unprocessed
C6_Witness ==
    \E r \in Running :
        /\ is_user_transaction(r.tx)
        /\ ~r.selected /\ r.timed_out /\ r.handoffs = 1
        /\ r.tx \notin processed

\* the closing handshake has come to rest: close_epoch is past its submit
\* and no certificate task is between its removal and its check
HandshakeAtRest ==
    /\ is_reject_user_certs(reconfig_state)
    /\ pending_consensus_certificates_empty(pending)
    /\ close_pc # "send"
    /\ \A r \in Running : is_user_transaction(r.tx) => r.pc # "check"

\* C7 as stated: exactly one end-of-publish is submitted; stated for the
\* executions in which every task was acknowledged before its timer fired.
C7_ExactlyOneEndOfPublish ==
    (HandshakeAtRest /\ sequencing_certificate_timeouts = 0)
        => EndOfPublishSubmitted = 1

\* C7: when the handshake has come to rest at least one end-of-publish has
\* been submitted; close_epoch submitted at most one and each finished task
\* at most one.
C7_AtLeastOneEndOfPublish ==
    HandshakeAtRest =>
        /\ EndOfPublishSubmitted >= 1
        /\ end_of_publish_submits["close_epoch"] <= 1
        /\ end_of_publish_submits["submit_and_wait_inner"] <= sequencing_certificate_success

\* the handshake at rest after a finishing task submitted the end-of-publish
C7_Witness ==
    HandshakeAtRest /\ end_of_publish_submits["submit_and_wait_inner"] >= 1

\* C8 as stated: after the move to RejectingUserCerts an end-of-publish is
\* eventually submitted.
C8_EndOfPublishEventually ==
    is_reject_user_certs(reconfig_state) ~> (EndOfPublishSubmitted >= 1)

\* C8: after the move to RejectingUserCerts an end-of-publish is eventually
\* submitted, unless the store moves on to RejectingAllCerts.
C8_EndOfPublishUnlessAllRejected ==
    is_reject_user_certs(reconfig_state)
        ~> (EndOfPublishSubmitted >= 1 \/ reconfig_state = "RejectingAllCerts")

\* close_epoch found a certificate pending and the task that drained the set
\* submitted the end-of-publish
C8_Witness ==
    /\ is_reject_user_certs(reconfig_state)
    /\ end_of_publish_submits["close_epoch"] = 0
    /\ end_of_publish_submits["submit_and_wait_inner"] = 1
    /\ close_pc = "idle"

\* C9: a call of close_epoch in a state that does not accept user
\* certificates changes nothing: not the state, not the pending set, and no
\* end-of-publish is submitted or left to be submitted.
C9_CloseEpochIdempotent ==
    [][(CloseEpochLocked /\ ~should_accept_user_certs(reconfig_state)) =>
          UNCHANGED <<reconfig_state, pending, tasks, end_of_publish_submits, close_pc>>]_vars

\* close_epoch has closed the epoch and submitted, the store has moved on,
\* and close_epoch can be called again
C9_Witness ==
    /\ reconfig_state = "RejectingAllCerts"
    /\ end_of_publish_submits["close_epoch"] = 1
    /\ ENABLED CloseEpochLocked

\* C10: a call of close_epoch in AcceptingCerts moves the state to
\* RejectingUserCerts and goes on to its submit exactly when no certificate
\* was pending; the submit of close_epoch happens there and nowhere else.
C10_CloseEpochTransition ==
    [][/\ (CloseEpochLocked /\ should_accept_user_certs(reconfig_state)) =>
              /\ reconfig_state' = "RejectingUserCerts"
              /\ close_pc' = "send" <=> pending_consensus_certificates_count(pending) = 0
       /\ (close_pc = "send" /\ close_pc' # "send") =>
              /\ end_of_publish_submits'["close_epoch"]
                     = end_of_publish_submits["close_epoch"] + 1
              /\ EndOfPublish \in pending'
       /\ end_of_publish_submits'["close_epoch"] # end_of_publish_submits["close_epoch"]
              => close_pc = "send"]_vars

\* close_epoch closed an epoch with nothing pending and submitted
C10_Witness ==
    /\ reconfig_state = "RejectingUserCerts"
    /\ end_of_publish_submits["close_epoch"] = 1
    /\ end_of_publish_submits["submit_and_wait_inner"] = 0
    /\ pending = {EndOfPublish}

\* a returned call of the function fn
Returned(fn) == call.fn = fn /\ call.pc = "returned"

\* the map m holds authority a as Connected, its entry not being written
known_connected(m, a) == a \in DOMAIN m /\ m[a] = "Connected"

\* C11: for a user certificate and no exclusions, should_submit returns and
\* its answer is true exactly when no validator ranked ahead of self is
\* known to be connected: true at rank 0 whatever the map holds, false when
\* the validator at rank 0 is another one and connected.
C11_SelectorDecision ==
    (Returned("should_submit") /\ is_user_transaction(call.args.transaction)) =>
        LET a == call.args
            positions == order_validators_for_submission(a.committee, digest(a.transaction))
            our_position == CHOOSE i \in 0..(Len(positions) - 1) : positions[i + 1] = a.ourselves
        IN  /\ call.out.terminates
            /\ call.out.submit <=>
                   \A j \in 0..(our_position - 1) : ~known_connected(a.m, positions[j + 1])
            /\ our_position = 0 => call.out.submit
            /\ (our_position > 0 /\ known_connected(a.m, positions[1])) => ~call.out.submit

\* self at rank 2 submits because both validators ahead were skipped
C11_Witness ==
    /\ Returned("should_submit")
    /\ is_user_transaction(call.args.transaction)
    /\ call.out.submit
    /\ call.out.skipped = 2

\* C12: for a transaction that is not a user certificate should_submit
\* returns true, skips no validator and records no position, and the answer
\* is the same for every connectivity map.
C12_ControlMessagesBypass ==
    (Returned("should_submit") /\ ~is_user_transaction(call.args.transaction)) =>
        LET a == call.args
        IN  /\ call.out.terminates
            /\ call.out.submit
            /\ call.out.skipped = 0
            /\ call.out.position = -1
            /\ \A m2 \in StatusMaps(Members(a.committee) \ {a.ourselves}) :
                   should_submit(m2, a.committee, a.ourselves, a.transaction, {}) = call.out

\* an end-of-publish submitted by a validator all of whose peers are connected
C12_Witness ==
    /\ Returned("should_submit")
    /\ is_end_of_publish(call.args.transaction)
    /\ call.out.submit
    /\ Len(call.args.committee) > 1
    /\ DOMAIN call.args.m = Members(call.args.committee) \ {call.args.ourselves}
    /\ \A x \in DOMAIN call.args.m : call.args.m[x] = "Connected"

\* the hand-offs a task has made at its position: one by the selected
\* submit_after_selected once it has returned, one by the fallback once it
\* has returned
HandoffsDue(r) ==
    (IF r.selected /\ r.pc \notin {"start", "submit1"} THEN 1 ELSE 0)
  + (IF r.timed_out /\ r.pc \in {"remove", "check"} THEN 1 ELSE 0)

\* C13: the timeout counter moves only by one, in the step in which a task
\* waiting for an unresolved acknowledgment times out and starts one more
\* delivery attempt, selected or not; the fallback hands over exactly once;
\* a task whose acknowledgment resolves first goes on to the removal with
\* the counter and the hand-offs as they were.
C13_TimeoutFallback ==
    [][/\ (sequencing_certificate_timeouts' # sequencing_certificate_timeouts) =>
              /\ sequencing_certificate_timeouts' = sequencing_certificate_timeouts + 1
              /\ \E r \in Running :
                     /\ r.pc = "wait" /\ ~r.timed_out /\ r.tx \notin processed
                     /\ tasks' = Replace(tasks, r,
                            [r EXCEPT !.pc = "submit2", !.timed_out = TRUE, !.retries = 0])
       /\ \A r \in BagToSet(tasks') :
              /\ r.pc = "submit2" => r.timed_out
              /\ r.handoffs = HandoffsDue(r)
       /\ \A r \in Running :
              (r.pc = "wait" /\ tasks' = Replace(tasks, r, [r EXCEPT !.pc = "remove"])) =>
                  /\ r.tx \in processed
                  /\ sequencing_certificate_timeouts' = sequencing_certificate_timeouts
                  /\ handed' = handed]_vars

\* a node that was selected and delivered, timed out and delivered again
C13_Witness ==
    \E r \in Running : r.selected /\ r.timed_out /\ r.handoffs = 2

\* C14: every Err of the consensus client increments the failure counter
\* by one and leaves the attempt where it is, one retry further and with
\* nothing handed over; the first Ok ends the attempt with one hand-off,
\* after however many retries; the failure counter equals the Err results
\* returned.
C14_UnboundedRetry ==
    [][/\ sequencing_certificate_failures' = client_failures'
       /\ (client_failures' # client_failures) =>
              /\ client_failures' = client_failures + 1
              /\ handed' = handed
              /\ \E r \in Running :
                     /\ r.pc \in {"submit1", "submit2"}
                     /\ tasks' = Replace(tasks, r, [r EXCEPT !.retries = @ + 1])
       /\ \A r \in Running :
              /\ r.retries > 0 => r.pc \in {"submit1", "submit2"}
              /\ r.retries <= client_failures
              /\ (r.pc \in {"submit1", "submit2"} /\ handed' # handed) =>
                     \E r2 \in Running :
                         /\ r2.pc \in {"submit1", "submit2"}
                         /\ handed' = handed \cup {r2.tx}
                         /\ tasks' = Replace(tasks, r2,
                                [r2 EXCEPT !.handoffs = @ + 1, !.retries = 0,
                                           !.pc = IF @ = "submit1" THEN "wait" ELSE "remove"])]_vars

\* the only task there is has handed over after the client failed
\* MaxClientFailures times
C14_Witness ==
    /\ sequencing_certificate_failures = MaxClientFailures
    /\ sequencing_certificate_timeouts = 0
    /\ \E r \in Running :
           /\ r.pc = "wait" /\ r.handoffs = 1 /\ r.retries = 0
           /\ tasks = SetToBag({r})
           /\ pending = {r.tx}

\* C15: submit returns Err exactly when the insert into the pending table
\* failed, and then nothing is pending, no task is spawned and nothing is
\* handed over; when the insert succeeded it returns Ok with the transaction
\* pending and its task spawned.
C15_SubmitErrorOnlyFromInsert ==
    Returned("submit") =>
        /\ call.out = "Err" <=> ~call.args.insert_ok
        /\ call.out = "Err" => (pending = {} /\ tasks = EmptyBag /\ handed = {})
        /\ call.out = "Ok" =>
               /\ pending = {call.args.transaction}
               /\ tasks = SetToBag({NewTask(call.args.transaction)})
               /\ handed = {}

\* submit of a user certificate returned the error of the insert
C15_Witness ==
    /\ Returned("submit")
    /\ is_user_transaction(call.args.transaction)
    /\ call.out = "Err"

\* the delivery attempts in progress: the tasks that have begun
\* submit_and_wait_inner and have not ended
AttemptsInProgress ==
    BagCardinality([r \in {x \in Running : x.pc # "start"} |-> tasks[r]])

\* C16: num_inflight_transactions equals the number of delivery attempts
\* that have started and not yet ended.
C16_InflightAccounting ==
    num_inflight_transactions = AttemptsInProgress

\* the status carried by the most recent event for peer p among the
\* received events, Connected if there was none
LatestStatus(received, p) ==
    LET idx == {i \in 1..Len(received) : received[i][1] = p}
    IN  IF idx = {} THEN "Connected"
        ELSE received[CHOOSE i \in idx : \A j \in idx : j <= i][2]

\* C17: from spawn on, the listener's map holds exactly the authorities of
\* the peer mapping, each with the status of the most recent event received
\* for its peer, Connected if none was received.
C17_TrackerState ==
    (call.fn = "ConnectionMonitorListener" /\ call.pc # "called") =>
        LET names == call.args.peer_id_to_authority_names
            statuses == call.out.connection_statuses
        IN  /\ DOMAIN statuses = {names[p] : p \in DOMAIN names}
            /\ \A p \in DOMAIN names :
                   statuses[names[p]] = LatestStatus(call.out.received, p)

\* the listener has returned after MaxEvents events: one authority is
\* disconnected, another is connected again after a disconnection
C17_Witness ==
    /\ Returned("ConnectionMonitorListener")
    /\ Len(call.out.received) = MaxEvents
    /\ \E p, q \in DOMAIN call.args.peer_id_to_authority_names :
           LET names == call.args.peer_id_to_authority_names
           IN  /\ p # q
               /\ call.out.connection_statuses[names[p]] = "Disconnected"
               /\ call.out.connection_statuses[names[q]] = "Connected"
               /\ \E i \in 1..Len(call.out.received) :
                      call.out.received[i] = <<q, "Disconnected">>

\* C18: check_connection answers a locked entry with Disconnected and an
\* absent one with None, and answers Connected only for an entry that is
\* present, unlocked and Connected; and when should_submit returns false
\* for a user certificate, the first validator in rank order that was not
\* skipped stands ahead of self and was present, unlocked and Connected.
C18_ConservativeReads ==
    /\ Returned("check_connection") =>
           LET m == call.args.m
               a == call.args.authority
           IN  /\ (a \in DOMAIN m /\ m[a] = "Locked") => call.out = "Disconnected"
               /\ a \notin DOMAIN m => call.out = "None"
               /\ call.out = "Connected" => known_connected(m, a)
    /\ (/\ Returned("should_submit")
        /\ is_user_transaction(call.args.transaction)
        /\ ~call.out.submit) =>
           LET a == call.args
               positions == order_validators_for_submission(a.committee, digest(a.transaction))
           IN  \E j \in 1..Len(positions) :
                   /\ \A i \in 1..j : positions[i] # a.ourselves
                   /\ known_connected(a.m, positions[j])
                   /\ \A i \in 1..(j - 1) : try_get(a.m, positions[i]) # "Connected"
                   /\ call.out.skipped = j - 1

\* self at rank 2 submits: the entry of rank 0 was locked, that of rank 1 absent
C18_Witness ==
    /\ Returned("should_submit")
    /\ is_user_transaction(call.args.transaction)
    /\ call.out.submit
    /\ LET a == call.args
           positions == order_validators_for_submission(a.committee, digest(a.transaction))
       IN  /\ Len(positions) = 3
           /\ positions[3] = a.ourselves
           /\ try_get(a.m, positions[1]) = "Locked"
           /\ try_get(a.m, positions[2]) = "Absent"

\* C19: the position position_submit_certificate returns is smaller than
\* the size of the committee, and for the committee and digest of the call
\* exactly one validator has position 0.
C19_PositionInRange ==
    Returned("position_submit_certificate") =>
        LET a == call.args
        IN  /\ call.out \in 0..(Len(a.committee) - 1)
            /\ Cardinality({v \in Members(a.committee) :
                   position_submit_certificate(a.committee, v, a.tx_digest) = 0}) = 1

\* a validator of a committee of MaxCommittee at the last position
C19_Witness ==
    /\ Returned("position_submit_certificate")
    /\ Len(call.args.committee) = MaxCommittee
    /\ call.out = MaxCommittee - 1

C21_NoSubmissionWhenRejectingAll ==
    [][reconfig_state = "RejectingAllCerts" =>
          /\ end_of_publish_submits' = end_of_publish_submits
          /\ handed' = handed]_vars

\* C22: for every priority list and every set of excluded ranks
\* check_submission_wrt_connectivity returns, and its decision is true
\* exactly when no rank ahead of self that is not excluded holds a
\* connected validator.
C22_ExclusionScanTerminates ==
    call.fn = "check_submission_wrt_connectivity" =>
        /\ call.pc # "looping"
        /\ call.pc = "returned" =>
               LET a == call.args
                   our_position == CHOOSE i \in 0..(Len(a.positions) - 1) :
                                       a.positions[i + 1] = a.ourselves
               IN  call.out.submit <=>
                       \A j \in (0..(our_position - 1)) \ a.exclusions :
                           ~known_connected(a.m, a.positions[j + 1])

\* C23: a reconfiguration-state guard is held exactly in the guarded block,
\* and every step of close_epoch or of the post-acknowledgment code that
\* submits an end-of-publish is taken with no guard held.
C23_NoGuardAcrossSubmit ==
    [][(call.fn \in {"close_epoch", "submit_and_wait_inner"} /\ call.pc # "called") =>
          /\ call.out.guard # "none" <=> call.pc = "locked"
          /\ (end_of_publish_submits' # end_of_publish_submits) =>
                 /\ call.pc = "unlocked"
                 /\ call.out.guard = "none"
                 /\ EndOfPublish \in pending']_vars

\* the post-acknowledgment code of the last certificate has submitted the
\* end-of-publish and returned
C23_Witness ==
    /\ Returned("submit_and_wait_inner")
    /\ is_user_transaction(call.args.transaction)
    /\ call.out.send_end_of_publish
    /\ end_of_publish_submits["submit_and_wait_inner"] = 1
    /\ EndOfPublish \in pending

\* tasks for key k spawned by the step
Spawned(k) == CountAt(tasks', k, "start") - CountAt(tasks, k, "start")

\* C24: submit_recovered leaves the pending set as it is and spawns one task
\* per transaction of the recovered list: one for every persisted user
\* certificate and none for any other certificate, at least one for a
\* persisted end-of-publish, and as many tasks in all as the list is long.
C24_RecoveryFrame ==
    [][RecoveryStep =>
          /\ pending' = pending
          /\ epoch_alive =>
                 /\ \A c \in Certs : Spawned(c) = (IF c \in pending THEN 1 ELSE 0)
                 /\ EndOfPublish \in pending => Spawned(EndOfPublish) >= 1
                 /\ BagCardinality(tasks') - BagCardinality(tasks) =
                        Len(recovered_transactions(pending, reconfig_state))]_vars

\* after a restart the recovery has respawned the task of a persisted
\* certificate, which has not moved yet
C24_Witness ==
    /\ restarted /\ started
    /\ \E c \in Certs : c \in pending /\ CountAt(tasks, c, "start") = 1
    /\ BagCardinality(tasks) = Cardinality(pending)

\* the view of validator v in which every other member of c is connected
all_connected(c, v) == [a \in Members(c) \ {v} |-> "Connected"]
\* the validators of c that decide to submit k, each on its own view
submitters(c, k, views) ==
    {v \in Members(c) : should_submit(views[v], c, v, k, {}).submit}

\* C25: for a user certificate, when every validator of the committee sees
\* all the others connected, the validators that get true from should_submit
\* are exactly the one at rank 0; the call made agrees when its own view is
\* that one.
C25_SingleSubmitter ==
    (Returned("should_submit") /\ is_user_transaction(call.args.transaction)) =>
        LET a == call.args
            positions == order_validators_for_submission(a.committee, digest(a.transaction))
        IN  /\ submitters(a.committee, a.transaction,
                          [v \in Members(a.committee) |-> all_connected(a.committee, v)])
                   = {positions[1]}
            /\ a.m = all_connected(a.committee, a.ourselves) =>
                   (call.out.submit <=> a.ourselves = positions[1])

\* in a committee of three, a validator that is not at rank 0 and sees both
\* others connected has returned false
C25_Witness ==
    /\ Returned("should_submit")
    /\ is_user_transaction(call.args.transaction)
    /\ Len(call.args.committee) = 3
    /\ call.args.m = all_connected(call.args.committee, call.args.ourselves)
    /\ call.args.ourselves #
           order_validators_for_submission(call.args.committee,
                                           digest(call.args.transaction))[1]
    /\ ~call.out.submit

\* C26: for a user certificate the validator at rank 0 gets true from
\* should_submit on every view it can have (entries missing, locked,
\* connected or not), so under any assignment of views some validator
\* submits.
C26_RankZeroAlwaysSubmits ==
    (Returned("should_submit") /\ is_user_transaction(call.args.transaction)) =>
        LET a == call.args
            first == order_validators_for_submission(a.committee, digest(a.transaction))[1]
        IN  /\ \A m2 \in StatusMaps(Members(a.committee) \ {first}) :
                   LET res == should_submit(m2, a.committee, first, a.transaction, {})
                   IN  res.terminates /\ res.submit /\ res.position = 0
            /\ submitters(a.committee, a.transaction,
                          [v \in Members(a.committee) |->
                              IF v = a.ourselves THEN a.m
                              ELSE all_connected(a.committee, v)]) # {}

\* the validator at rank 0 of a committee of three has returned true while
\* it sees one peer connected and the entry of the other locked
C26_Witness ==
    /\ Returned("should_submit")
    /\ is_user_transaction(call.args.transaction)
    /\ Len(call.args.committee) = 3
    /\ call.args.ourselves =
           order_validators_for_submission(call.args.committee,
                                           digest(call.args.transaction))[1]
    /\ \E x, y \in DOMAIN call.args.m :
           call.args.m[x] = "Connected" /\ call.args.m[y] = "Locked"
    /\ call.out.submit

\* C27: a delivery task has handed its transaction over at most twice, at
\* most once for having been selected and at most once for having timed
\* out, and not at all when it was not selected and its acknowledgment came
\* before the timer.
C27_BoundedHandoffs ==
    \A r \in Running :
        /\ r.handoffs <= 2
        /\ r.handoffs <= (IF r.selected THEN 1 ELSE 0) + (IF r.timed_out THEN 1 ELSE 0)
        /\ (r.pc \in {"remove", "check"} /\ ~r.selected /\ ~r.timed_out) =>
               r.handoffs = 0 /\ r.tx \in processed

\* a task that was not selected and was acknowledged in time is at the end
\* of its body and has handed nothing over
C27_Witness ==
    \E r \in Running :
        /\ r.pc = "check" /\ ~r.selected /\ ~r.timed_out
        /\ r.handoffs = 0
        /\ r.tx \notin handed

\* C28: with any number of threads inside populate_position_metric in any
\* interleaving, num_inflight_transactions is the number of guards held,
\* never below zero, and zero again when every caller has returned; outside
\* these calls it is zero.
C28_InflightBalanced ==
    /\ num_inflight_transactions >= 0
    /\ IF call.fn = "populate_position_metric"
       THEN /\ num_inflight_transactions =
                   Cardinality({i \in 1..call.args.callers : guard_of(i) = "held"})
            /\ call.pc = "returned" => num_inflight_transactions = 0
       ELSE num_inflight_transactions = 0

\* two guards are held at the same time, a third caller or none has
\* already dropped its own
C28_Witness ==
    /\ call.fn = "populate_position_metric" /\ call.pc = "running"
    /\ num_inflight_transactions = 2
    /\ call.out[1] = "held" /\ call.out[2] = "held"

====
